---- MODULE Spec2Model ----
(***************************************************************************)
(* A model of the coordination logic of zoom/videosdk-react:               *)
(*   - the per-entity media attachment managers (VideoPlayerComponent and  *)
(*     ScreenSharePlayerComponent), in the two variants the sources hold:  *)
(*       "mutex"    src/components/VideoPlayerComponent/...tsx and         *)
(*                  src/components/ScreenSharePlayerComponent/...tsx       *)
(*       "deferred" src/unnamed/part_014 (isMountedRef + setTimeout)       *)
(*   - the session controller useSession (src/hooks.tsx:514-612)           *)
(*   - the local screen share component (LocalScreenShareComponent.tsx,    *)
(*     lines 161-273)                                                      *)
(*   - the roster hook useSessionUsers and the list of screen-sharing      *)
(*     users useScreenShareUsers                                           *)
(* JavaScript is single threaded: every action below is one task of the    *)
(* event loop (a React commit, a timer callback, the continuation of an    *)
(* awaited backend promise, a backend event).                              *)
(***************************************************************************)
EXTENDS Integers, Sequences, FiniteSets, Bags, TLC

\* ------------------------------------------------------------------ bounds
NumUsers == 2
MaxPending == 2
MaxAwaits == 2
MaxStarts == 2
\* the longest list of screen-sharing users
MaxListed == 2
\* pending startShareView / stopShareView calls of the remote share surface
MaxViews == 2
\* passively-stop-share handlers registered on the backend at one time
MaxHandlers == 2

Users == 1..NumUsers
\* the values of the quality prop: the default (part_014:120) and the one of
\* the usage example (part_014:114)
Qualities == {"Video_360P", "Video_720P"}

\* --------------------------------------------------------------- variables
VARIABLES
    impl,           \* which variant of the manager this behaviour runs
    kind,           \* "video" (VideoPlayerComponent) or "share" (ScreenSharePlayerComponent)
    mounted,        \* the component's effects are currently set up
    isMountedRef,   \* part_014: isMountedRef.current
    videoMutexRef,  \* mutex variant: videoMutexRef.current / screenshareMutexRef.current
    cleanupUid,     \* user id captured by the cleanup the last effect run returned, 0 = none
    userId,         \* prop: user.userId / userId
    quality,        \* prop: quality
    bOn,            \* user.bVideoOn (video) or getAllUser() ... .sharerOn (share) of userId
    isInMeeting,    \* client.getSessionInfo().isInMeeting
    container,      \* children of the container element, in DOM order
    inflight,       \* backend attach/detach promises not yet settled: a bag of calls
    timers,         \* pending setTimeout(..., 0) callbacks, in firing order
    aIssued,        \* console.error, console.warn and element.remove() of the last step
    toggle,         \* history: progress through the change sequence off, on, off
    life            \* history: progress through teardown / re-setup / deferred check

attachVars == <<impl, kind, mounted, isMountedRef, videoMutexRef, cleanupUid, userId,
                quality, bOn, isInMeeting, container, inflight, timers, aIssued,
                toggle, life>>

\* useSession (src/hooks.tsx:514-612)
VARIABLES
    sMounted,       \* a component using the hook is mounted
    sThrown,        \* the last render threw "Missing required parameters"
    sArgs,          \* the arguments of the last render (the effect's dependencies)
    isLoading,      \* React state of the hook
    isInSession,
    isError,
    error,          \* 0 = null, 1 = the value caught from init/join/start
    effectActive,   \* the last effect run returned a cleanup
    subscribed,     \* connection-change handlers registered on the client
    runs,           \* initSession() calls suspended at an await, in start order
    sessIn,         \* backend: getSessionInfo().isInMeeting
    host,           \* backend: isHost()
    leaves,         \* backend: leave() promises not yet settled
    issued,         \* what the last step called on the backend, threw and logged, in order
    unleft,         \* history: a join resolved and no leave call was made since
    connSeq         \* history: progress through Connected, Reconnecting, Connected

sessionVars == <<sMounted, sThrown, sArgs, isLoading, isInSession, isError, error,
                 effectActive, subscribed, runs, sessIn, host, leaves, issued, unleft,
                 connSeq>>

\* LocalScreenShareComponent
VARIABLES
    shMounted,      \* the component is mounted
    enabled,        \* React state: sharing
    isVideoElement, \* React state: the surface that is displayed when enabled
    inMeeting,      \* isInMeeting as read by the last render
    observerSet,    \* onStateChangeRef holds a callback
    passiveSub,     \* backend: passively-stop-share handlers of the component
    starts,         \* backend: startShareScreen promises not yet settled
    shSession,      \* backend: getSessionInfo().isInMeeting
    shareLocked,    \* backend: isShareLocked()
    capability,     \* backend: isStartShareScreenWithVideoElement()
    bSharing,       \* backend: the local user is sharing the screen
    sharerOn,       \* roster: sharerOn of the current user
    shIssued,       \* what the last step called on the backend and logged, in order
    passiveSince,   \* history: a passive stop was handled while a start call was
                    \* pending, and no requestShare was accepted since
    shVersion       \* which version of LocalScreenShareComponent.tsx runs: "first"
                    \* (lines 1-122) or "current" (lines 124-275)

shareVars == <<shMounted, enabled, isVideoElement, inMeeting, observerSet, passiveSub,
               starts, shSession, shareLocked, capability, bSharing, sharerOn,
               shIssued, passiveSince, shVersion>>

\* useSessionUsers and useScreenShareUsers, and the backend's registry
VARIABLES
    ruMounted,          \* useSessionUsers is mounted
    suMounted,          \* useScreenShareUsers is mounted
    sessionUsers,       \* the roster state of useSessionUsers
    screenShareUsers,   \* the list state of useScreenShareUsers
    allUser,            \* what client.getAllUser() returns now
    uClosed,            \* the last backend event was connection-change Closed
    uIssued,             \* what the last step called on the backend, in order
    myself          \* useMyself (part_016): React state, NoParticipant = null

userVars ==
    <<ruMounted, suMounted, sessionUsers, screenShareUsers, allUser, uClosed, uIssued, myself>>

\* RemoteScreenShareComponent (RemoteScreenShareComponent.tsx:21-53)
VARIABLES
    rMounted,       \* the component is mounted, its handler subscribed
    isRendering,    \* React state: the canvas is displayed
    views,          \* handler runs waiting on startShareView / stopShareView
    lastState,      \* history: state of the last active-share-change event handled
    rIssued         \* backend calls and console output of the last step

remoteVars == <<rMounted, isRendering, views, lastState, rIssued>>

vars == <<attachVars, sessionVars, shareVars, userVars, remoteVars>>

\* ----------------------------------------------------------- DOM helpers
\* container.querySelector(`[data-user-id='${u}']`) is not null
HasElem(c, u) == \E i \in 1..Len(c) : c[i].uid = u

\* number of children of c matching the selector of u
CountElem(c, u) == Cardinality({i \in 1..Len(c) : c[i].uid = u})

\* container.querySelectorAll(selector).forEach(el => el.remove())
RemoveAll(c, u) == SelectSeq(c, LAMBDA e : e.uid # u)

RemoveAt(s, i) == SubSeq(s, 1, i - 1) \o SubSeq(s, i + 1, Len(s))

AttachCall(u, q) == [op |-> "attach", uid |-> u, q |-> q]
DetachCall(u) == [op |-> "detach", uid |-> u, q |-> "none"]

\* the calls a manager can make on the backend
Calls == {AttachCall(u, q) : u \in Users, q \in Qualities \cup {"none"}}
         \cup {DetachCall(u) : u \in Users}

\* quality handed to the backend: attachVideo(userId, quality); attachShareView(userId)
CallQuality(q) == IF kind = "video" THEN q ELSE "none"

\* ------------------------------------------------ attachVideo / detachVideo
\* The synchronous head of attachVideo, up to the await: the in-flight calls
\* after it ran on in-flight calls fl and container c.
AttachStart(fl, c, u, q) ==
    IF HasElem(c, u) THEN fl ELSE fl (+) SetToBag({AttachCall(u, CallQuality(q))})

\* The synchronous head of detachVideo. part_014 returns when no element
\* matches; the mutex variant calls the backend unconditionally.
DetachStart(fl, c, u) ==
    IF impl = "deferred" /\ ~HasElem(c, u) THEN fl ELSE fl (+) SetToBag({DetachCall(u)})

\* ------------------------------------------------------ history variables
Quiescent == inflight = EmptyBag /\ timers = <<>>

\* toggle counts how far the desired state of the mounted video player has
\* gone through off, on, off with no backend promise settling between the
\* changes (0: not in such a sequence).  The first off is an effect run in a
\* connected session with nothing pending.
ToggleAfter(ev) ==
    CASE ev = "off" -> IF toggle = 2 THEN 3
                       ELSE IF Quiescent /\ isInMeeting /\ kind = "video" THEN 1 ELSE 0
      [] ev = "on" -> IF toggle = 1 THEN 2 ELSE 0
      [] ev \in {"settle", "reject"} -> IF toggle = 3 THEN 3 ELSE 0
      [] ev = "timer" -> toggle
      [] OTHER -> 0

\* life follows one teardown of a part_014 manager whose view is attached,
\* with nothing pending: "down" after the teardown, then either
\*   "up" (set up again, view wanted) and "kept" (its deferred check ran), or
\*   "detaching" (the deferred check ran first) and "detached" (the backend
\*   detach it issued settled).
\* It also follows one change of the quality prop of a video player whose
\* video is on and whose view is attached, with no backend call pending:
\* "requality" from the change on, through the timers and the settlements
\* that follow it, until another prop or the environment changes.
\* And it follows one change of the user id prop of a mounted manager in a
\* joined session, with nothing pending and no element of another entity in
\* the container: "reid" from the change on, through the timers and the
\* backend calls that resolve, until a call rejects or another prop or the
\* environment changes.
\* "late": the last deferred check of a torn-down part_014 manager ran on
\* an empty container while a backend attach for its entity was in flight,
\* and the calls settling since resolved.
LifeAfter(ev) ==
    CASE ev = "teardown" -> IF /\ impl = "deferred" /\ cleanupUid = userId
                               /\ HasElem(container, userId) /\ Quiescent
                            THEN "down" ELSE "none"
      [] ev \in {"setupOn"} -> IF life = "down" THEN "up" ELSE "none"
      [] ev = "timer" -> IF life = "up" THEN "kept"
                         ELSE IF life = "down" THEN "detaching"
                         ELSE IF life \in {"requality", "reid", "late"} THEN life
                         ELSE IF /\ impl = "deferred" /\ ~isMountedRef /\ container = <<>>
                                 /\ Len(timers) = 1
                                 /\ \E c \in BagToSet(inflight) :
                                       c.op = "attach" /\ c.uid = Head(timers)
                              THEN "late" ELSE "none"
      [] ev \in {"settle", "reject"} ->
            IF life = "detaching" THEN "detached"
            ELSE IF life = "requality" THEN "requality"
            ELSE IF life \in {"reid", "late"} /\ ev = "settle" THEN life ELSE "none"
      [] ev = "quality" -> IF /\ kind = "video" /\ bOn /\ isInMeeting
                              /\ CountElem(container, userId) = 1
                              /\ inflight = EmptyBag /\ ~videoMutexRef
                           THEN "requality" ELSE "none"
      [] ev = "userId" -> IF /\ isInMeeting /\ Quiescent /\ ~videoMutexRef
                             /\ CountElem(container, userId) = Len(container)
                             /\ Len(container) <= 1
                          THEN "reid" ELSE "none"
      [] OTHER -> "none"

Observe(ev) ==
    /\ toggle' = ToggleAfter(ev)
    /\ life' = LifeAfter(ev)

\* ------------------------------------------------ the reconciliation effect
\* The effect body run on in-flight calls fl with mutex value mtx, for props
\* (u, q) and desired state on: the record of what it leaves behind.
\* cleanup = 0 when the effect returned before registering a cleanup.
Reconcile(fl, mtx, c, u, q, on) ==
    IF impl = "deferred"
    THEN IF kind = "video" /\ ~isInMeeting
         THEN [fl |-> fl, mtx |-> mtx, cleanup |-> 0]
         ELSE [fl |-> IF on THEN AttachStart(fl, c, u, q) ELSE DetachStart(fl, c, u),
               mtx |-> mtx, cleanup |-> u]
    ELSE IF mtx
         THEN [fl |-> fl, mtx |-> mtx, cleanup |-> 0]
         ELSE IF on
              THEN [fl |-> AttachStart(fl, c, u, q),
                    \* attachVideo resolves at once when the element exists and
                    \* its .then() releases the mutex in the same task's microtasks
                    mtx |-> ~HasElem(c, u), cleanup |-> u]
              ELSE [fl |-> DetachStart(fl, c, u), mtx |-> TRUE, cleanup |-> u]

\* The cleanup returned by the previous effect run, if any: part_014 arms a
\* zero-delay timer, the mutex variant calls detachVideo at once.
CleanupTimers(tm) ==
    IF impl = "deferred" /\ cleanupUid # 0 THEN Append(tm, cleanupUid) ELSE tm

CleanupInflight(fl, c) ==
    IF impl = "mutex" /\ cleanupUid # 0 THEN DetachStart(fl, c, cleanupUid) ELSE fl

\* A commit that re-runs the effect with props (u, q) and desired state on:
\* the previous run's cleanup, then the effect body.
Rerun(u, q, on) ==
    LET r == Reconcile(CleanupInflight(inflight, container), videoMutexRef, container, u, q, on) IN
    /\ inflight' = r.fl
    /\ videoMutexRef' = r.mtx
    /\ cleanupUid' = r.cleanup
    /\ timers' = CleanupTimers(timers)
    /\ BagCardinality(inflight') + Len(timers') <= MaxPending

\* ----------------------------------------------------------------- actions
\* The component's effects are set up (mount, or a re-run after a teardown):
\* the isMountedRef effect, then the reconciliation effect.
Setup ==
    /\ ~mounted
    /\ mounted' = TRUE
    /\ isMountedRef' = TRUE
    /\ LET r == Reconcile(inflight, videoMutexRef, container, userId, quality, bOn) IN
        /\ inflight' = r.fl
        /\ videoMutexRef' = r.mtx
        /\ cleanupUid' = r.cleanup
    /\ BagCardinality(inflight') + Len(timers) <= MaxPending
    /\ toggle' = ToggleAfter(IF bOn THEN "setupOn" ELSE "off")
    /\ life' = LifeAfter(IF bOn THEN "setupOn" ELSE "setupOff")
    /\ aIssued' = <<>>
    /\ UNCHANGED <<sessionVars, shareVars, userVars, remoteVars>>
    /\ UNCHANGED <<impl, kind, userId, quality, bOn, isInMeeting, container, timers>>

\* The component's effects are torn down (unmount, or a simulated unmount):
\* both cleanups run.
Teardown ==
    /\ mounted
    /\ mounted' = FALSE
    /\ isMountedRef' = FALSE
    /\ timers' = CleanupTimers(timers)
    /\ inflight' = CleanupInflight(inflight, container)
    /\ cleanupUid' = 0
    /\ BagCardinality(inflight') + Len(timers') <= MaxPending
    /\ Observe("teardown")
    /\ aIssued' = <<>>
    /\ UNCHANGED <<sessionVars, shareVars, userVars, remoteVars>>
    /\ UNCHANGED <<impl, kind, videoMutexRef, userId, quality, bOn, isInMeeting, container>>

\* The participant's bVideoOn / sharerOn changes in the backend.  bVideoOn is
\* a dependency of the video effect; sharerOn is read by the share effect
\* but is not one of its dependencies, so the share effect does not re-run.
SetOn(b) ==
    /\ bOn # b
    /\ bOn' = b
    /\ IF mounted /\ kind = "video"
       THEN Rerun(userId, quality, b) /\ Observe(IF b THEN "on" ELSE "off")
       ELSE UNCHANGED <<inflight, videoMutexRef, cleanupUid, timers>> /\ Observe("env")
    /\ aIssued' = <<>>
    /\ UNCHANGED <<sessionVars, shareVars, userVars, remoteVars>>
    /\ UNCHANGED <<impl, kind, mounted, isMountedRef, userId, quality, isInMeeting, container>>

\* The quality prop of a mounted video player changes.
SetQuality(q) ==
    /\ mounted /\ kind = "video"
    /\ q # quality
    /\ quality' = q
    /\ Rerun(userId, q, bOn)
    /\ Observe("quality")
    /\ aIssued' = <<>>
    /\ UNCHANGED <<sessionVars, shareVars, userVars, remoteVars>>
    /\ UNCHANGED <<impl, kind, mounted, isMountedRef, userId, bOn, isInMeeting, container>>

\* The user id prop of a mounted player changes to u, a participant whose
\* bVideoOn / sharerOn is b.
SetUserId(u, b) ==
    /\ mounted
    /\ u # userId
    /\ userId' = u
    /\ bOn' = b
    /\ Rerun(u, quality, b)
    /\ Observe("userId")
    /\ aIssued' = <<>>
    /\ UNCHANGED <<sessionVars, shareVars, userVars, remoteVars>>
    /\ UNCHANGED <<impl, kind, mounted, isMountedRef, quality, isInMeeting, container>>

\* The backend session is joined / closed (getSessionInfo().isInMeeting).
SetInMeeting(b) ==
    /\ isInMeeting # b
    /\ isInMeeting' = b
    /\ Observe("env")
    /\ aIssued' = <<>>
    /\ UNCHANGED <<sessionVars, shareVars, userVars, remoteVars>>
    /\ UNCHANGED <<impl, kind, mounted, isMountedRef, videoMutexRef, cleanupUid, userId,
                   quality, bOn, container, inflight, timers>>

DeferredCheckActsAlways == TRUE

\* part_014:162: the deferred check acts only when the component is unmounted
DeferredCheckActs == ~isMountedRef

\* The oldest setTimeout(..., 0) callback of a part_014 cleanup runs.
TimerFire ==
    /\ timers # <<>>
    /\ timers' = Tail(timers)
    /\ Observe("timer")
    /\ aIssued' = <<>>
    /\ LET u == Head(timers) IN
       IF ~DeferredCheckActs
       THEN UNCHANGED <<inflight, container>>
       ELSE IF kind = "video" /\ ~isInMeeting
            THEN /\ container' = RemoveAll(container, u)
                 /\ UNCHANGED inflight
            ELSE /\ inflight' = DetachStart(inflight, container, u)
                 /\ UNCHANGED container
    /\ BagCardinality(inflight') + Len(timers') <= MaxPending
    /\ UNCHANGED <<sessionVars, shareVars, userVars, remoteVars>>
    /\ UNCHANGED <<impl, kind, mounted, isMountedRef, videoMutexRef, cleanupUid, userId,
                   quality, bOn, isInMeeting>>

PostAwaitRecheckNever == FALSE

\* part_014:31 and 205: the selector is queried again after the await; the
\* mutex variant appends without looking
PostAwaitRecheck == impl = "deferred"

\* part_014:35-39 and 209-212: the element the resolved call c returned is
\* removed instead of appended
Discards(c) == PostAwaitRecheck /\ HasElem(container, c.uid)

\* The backend attach promise of call c settles.  ok: it resolves with a
\* fresh element; otherwise it rejects, which attachVideo logs and swallows.
\* part_014 re-checks the selector before appending, the mutex variant does
\* not; the mutex variant's .then() releases the mutex.
AttachSettle(c, ok) ==
    /\ BagIn(c, inflight)
    /\ c.op = "attach"
    /\ inflight' = inflight (-) SetToBag({c})
    /\ container' = IF ok /\ ~Discards(c)
                    THEN Append(container, [uid |-> c.uid, q |-> c.q])
                    ELSE container
    /\ videoMutexRef' = (IF impl = "mutex" THEN FALSE ELSE videoMutexRef)
    /\ aIssued' = (IF ~ok THEN <<"error">> ELSE IF Discards(c) THEN <<"remove">> ELSE <<>>)
    /\ Observe(IF ok THEN "settle" ELSE "reject")
    /\ UNCHANGED <<sessionVars, shareVars, userVars, remoteVars>>
    /\ UNCHANGED <<impl, kind, mounted, isMountedRef, cleanupUid, userId, quality, bOn,
                   isInMeeting, timers>>

\* Whether detachVideo still strips the matching elements when the backend
\* detach promise rejects: only part_014's video detachVideo catches the
\* rejection on the promise itself; the others leave the try block.
RemovesOnReject == impl = "deferred" /\ kind = "video"

\* The backend detach promise of call c settles.
DetachSettle(c, ok) ==
    /\ BagIn(c, inflight)
    /\ c.op = "detach"
    /\ inflight' = inflight (-) SetToBag({c})
    /\ container' = IF ok \/ RemovesOnReject
                    THEN RemoveAll(container, c.uid)
                    ELSE container
    /\ videoMutexRef' = (IF impl = "mutex" THEN FALSE ELSE videoMutexRef)
    /\ aIssued' = (IF ok THEN <<>> ELSE <<"warn">>)
    /\ Observe(IF ok THEN "settle" ELSE "reject")
    /\ UNCHANGED <<sessionVars, shareVars, userVars, remoteVars>>
    /\ UNCHANGED <<impl, kind, mounted, isMountedRef, cleanupUid, userId, quality, bOn,
                   isInMeeting, timers>>

\* ============================================================ useSession

\* The option objects a caller passes; the fields the hook branches on.
\* (Audio alone stands for either single medium: the two branches of
\* hooks.tsx:576-580 differ in the call they make only.)
Default == [waitBeforeJoining |-> FALSE, disableAudio |-> FALSE, disableVideo |-> FALSE,
            endSessionOnLeave |-> FALSE]

OptionSet == {Default,
              [Default EXCEPT !.waitBeforeJoining = TRUE],
              [Default EXCEPT !.disableVideo = TRUE],
              [Default EXCEPT !.disableAudio = TRUE, !.disableVideo = TRUE],
              [Default EXCEPT !.endSessionOnLeave = TRUE]}

\* The arguments of a render: topic, token, userName and the options
\* (sessionPassword, the idle timeout, language... only travel to the backend).
AllArgs == [topic : {"", "topic"}, token : {"", "token"}, userName : {"", "userName"},
            opts : OptionSet]

\* The calls that are made: a call with an empty string is made with the
\* default options.
ArgSet == {a \in AllArgs : "" \in {a.topic, a.token, a.userName} => a.opts = Default}

\* The arguments of no render: the hook is not mounted.
NoArgs == [topic |-> "none", token |-> "none", userName |-> "none", opts |-> Default]

\* hooks.tsx:528: !topic || !token || !userName
MissingParamsNoToken(a) == a.topic = "" \/ a.userName = ""

MissingParams(a) == a.topic = "" \/ a.token = "" \/ a.userName = ""

\* hooks.tsx:559: the effect returns before any call when waitBeforeJoining is set
EffectRunsAlways(a) == TRUE

EffectRuns(a) == ~a.opts.waitBeforeJoining

\* hooks.tsx:571-580: what initSession awaits after the join
MediaOf(o) == IF ~o.disableAudio /\ ~o.disableVideo THEN "both"
              ELSE IF ~o.disableAudio THEN "audio"
              ELSE IF ~o.disableVideo THEN "video" ELSE "none"

LeaveCallsUnchecked == <<"leave()">>

\* hooks.tsx:596-607: the leave call of the cleanup, and its warning
LeaveCalls ==
    IF ~sessIn THEN <<>>
    ELSE IF host
         THEN <<IF sArgs.opts.endSessionOnLeave THEN "leave(true)" ELSE "leave(false)">>
         ELSE IF sArgs.opts.endSessionOnLeave THEN <<"warn", "leave()">> ELSE <<"leave()">>

\* hooks.tsx:592-608, the effect's cleanup: the record of what it changes.
Cleanup ==
    IF ~effectActive
    THEN [issued |-> <<>>, subscribed |-> subscribed, leaves |-> leaves,
          isInSession |-> isInSession, isError |-> isError]
    ELSE [issued |-> <<"off">> \o LeaveCalls,
          subscribed |-> subscribed - 1,
          leaves |-> IF sessIn THEN leaves + 1 ELSE leaves,
          isInSession |-> FALSE, isError |-> FALSE]

\* hooks.tsx:546-590, the effect body up to the first await of initSession,
\* run for arguments a after the cleanup result cl.
Effect(a, cl) ==
    /\ leaves' = cl.leaves
    /\ unleft' = (unleft /\ cl.leaves = leaves)
    /\ IF EffectRuns(a)
       THEN /\ issued' = cl.issued \o <<"on", "init">>
            /\ subscribed' = cl.subscribed + 1
            /\ isLoading' = TRUE
            /\ runs' = Append(runs, [pc |-> "init", media |-> MediaOf(a.opts), live |-> TRUE])
            /\ Len(runs') + leaves' <= MaxAwaits
            /\ effectActive' = TRUE
       ELSE /\ issued' = cl.issued
            /\ subscribed' = cl.subscribed
            /\ effectActive' = FALSE
            /\ UNCHANGED runs
            /\ Len(runs) + leaves' <= MaxAwaits

\* A component calling useSession(a...) mounts: the render, then the effect.
Mount(a) ==
    /\ ~sMounted
    /\ sArgs' = a
    /\ connSeq' = 0
    /\ IF MissingParams(a)
       THEN /\ sThrown' = TRUE
            /\ issued' = <<"throw">>
            /\ UNCHANGED <<sMounted, isLoading, isInSession, isError, error, effectActive,
                           subscribed, runs, leaves, unleft>>
       ELSE /\ sThrown' = FALSE
            /\ sMounted' = TRUE
            /\ isInSession' = FALSE
            /\ isError' = FALSE
            /\ error' = 0
            /\ Effect(a, Cleanup)
            /\ IF EffectRuns(a) THEN TRUE ELSE isLoading' = FALSE
    /\ UNCHANGED <<sessIn, host>>
    /\ UNCHANGED <<attachVars, shareVars, userVars, remoteVars>>

\* The cleanup on unmount.  The component's state is discarded with it, and
\* state updates of its suspended initSession calls are dropped from then on.
UnmountEffects(why) ==
    /\ sMounted' = FALSE
    /\ isLoading' = FALSE /\ isInSession' = FALSE /\ isError' = FALSE /\ error' = 0
    /\ issued' = why \o Cleanup.issued
    /\ subscribed' = Cleanup.subscribed
    /\ leaves' = Cleanup.leaves
    /\ unleft' = (unleft /\ Cleanup.leaves = leaves)
    /\ Len(runs) + leaves' <= MaxAwaits
    /\ effectActive' = FALSE
    /\ runs' = [i \in 1..Len(runs) |-> [runs[i] EXCEPT !.live = FALSE]]
    /\ UNCHANGED <<sessIn, host>>

Unmount ==
    /\ sMounted
    /\ UnmountEffects(<<>>)
    /\ connSeq' = 0
    /\ sArgs' = NoArgs
    /\ UNCHANGED sThrown
    /\ UNCHANGED <<attachVars, shareVars, userVars, remoteVars>>

\* utils.ts:35-111 on two dependency arrays: the strings are compared with
\* ===, the options objects (same constructor, plain objects) key by key.
dequal(prev, a) ==
    /\ prev.topic = a.topic /\ prev.token = a.token /\ prev.userName = a.userName
    /\ DOMAIN prev.opts = DOMAIN a.opts
    /\ \A f \in DOMAIN a.opts : prev.opts[f] = a.opts[f]

\* The comparison of a plain useEffect: every dependency with Object.is, so
\* the options object by reference.
DepsChangedByReference(prev, a, same) ==
    ~(prev.topic = a.topic /\ prev.token = a.token /\ prev.userName = a.userName /\ same)

\* utils.ts:11-16: the memoised dependencies are replaced (and the effect
\* re-runs) when the new ones are not deep-equal to them; `same` tells
\* whether the options object is the very object of the previous render.
DepsChanged(prev, a, same) == ~dequal(prev, a)

\* The mounted component renders again with arguments a.  The render throws
\* on a missing parameter (React then unmounts the component); otherwise the
\* effect re-runs when the arguments are not deep-equal to the previous ones,
\* and a render whose dependencies are kept ("dequal") does nothing.
Rerender(a, same) ==
    /\ sMounted
    /\ same => a.opts = sArgs.opts
    /\ a.opts # sArgs.opts => ~same
    /\ sArgs' = a
    /\ connSeq' = 0
    /\ IF MissingParams(a)
       THEN /\ sThrown' = TRUE
            /\ UnmountEffects(<<"throw">>)
       ELSE IF ~DepsChanged(sArgs, a, same)
       THEN /\ issued' = <<"dequal">>
            /\ UNCHANGED <<sMounted, sThrown, isLoading, isInSession, isError, error,
                           effectActive, subscribed, runs, sessIn, host, leaves, unleft>>
       ELSE /\ Effect(a, Cleanup)
            /\ isInSession' = Cleanup.isInSession
            /\ isError' = Cleanup.isError
            /\ IF EffectRuns(a) THEN TRUE ELSE UNCHANGED isLoading
            /\ UNCHANGED <<sMounted, sThrown, error, sessIn, host>>
    /\ UNCHANGED <<attachVars, shareVars, userVars, remoteVars>>

\* hooks.tsx:532-544, connectionHandler, called by the backend.
ConnectionChange(state) ==
    /\ sMounted
    /\ subscribed > 0
    /\ CASE state = "Closed" ->
              /\ isInSession' = FALSE /\ isError' = FALSE
              /\ UNCHANGED isLoading
         [] state = "Connected" ->
              /\ isError' = FALSE /\ isInSession' = TRUE
              /\ UNCHANGED isLoading
         [] state = "Reconnecting" ->
              /\ isLoading' = TRUE /\ isError' = FALSE /\ isInSession' = FALSE
    /\ sessIn' = (IF state = "Closed" THEN FALSE ELSE sessIn)
    /\ unleft' = (IF state = "Closed" THEN FALSE ELSE unleft)
    /\ issued' = <<>>
    /\ connSeq' = (CASE state = "Connected" ->
                          IF connSeq = 2 THEN 3
                          ELSE IF /\ runs = <<>> /\ leaves = 0 /\ sessIn
                                  /\ isInSession /\ ~isLoading /\ ~isError
                               THEN 1 ELSE 0
                     [] state = "Reconnecting" -> IF connSeq = 1 THEN 2 ELSE 0
                     [] OTHER -> 0)
    /\ UNCHANGED <<sMounted, sThrown, sArgs, error, effectActive, subscribed, runs, host,
                   leaves>>
    /\ UNCHANGED <<attachVars, shareVars, userVars, remoteVars>>

RunFailsSilently(r) == UNCHANGED <<isError, error, isLoading, isInSession>>

\* hooks.tsx:582-587: the catch block and the statement after it
RunFails(r) ==
    /\ IF r.live
       THEN isError' = TRUE /\ error' = 1 /\ isLoading' = FALSE
       ELSE UNCHANGED <<isError, error, isLoading>>
    /\ UNCHANGED isInSession

\* hooks.tsx:581,587: setInSession(true); setIsLoading(false)
RunSucceeds(r) ==
    /\ IF r.live
       THEN isInSession' = TRUE /\ isLoading' = FALSE
       ELSE UNCHANGED <<isInSession, isLoading>>
    /\ UNCHANGED <<isError, error>>

\* client.init() settles for the initSession call at position i.
InitSettle(i, ok) ==
    /\ i \in 1..Len(runs)
    /\ runs[i].pc = "init"
    /\ IF ok
       THEN /\ runs' = [runs EXCEPT ![i].pc = "join"]
            /\ issued' = <<"join">>
            /\ UNCHANGED <<isLoading, isInSession, isError, error>>
       ELSE /\ runs' = RemoveAt(runs, i)
            /\ RunFails(runs[i])
            /\ issued' = <<"error">>
    /\ connSeq' = 0
    /\ UNCHANGED <<sMounted, sThrown, sArgs, effectActive, subscribed, sessIn, host, leaves,
                   unleft>>
    /\ UNCHANGED <<attachVars, shareVars, userVars, remoteVars>>

\* client.join() settles.  On success the media starts are issued
\* (hooks.tsx:570-580); with both disabled nothing is awaited.
JoinSettle(i, ok) ==
    /\ i \in 1..Len(runs)
    /\ runs[i].pc = "join"
    /\ LET r == runs[i] IN
       IF ~ok
       THEN /\ runs' = RemoveAt(runs, i)
            /\ RunFails(r)
            /\ issued' = <<"error">>
            /\ UNCHANGED <<sessIn, unleft>>
       ELSE /\ sessIn' = TRUE
            /\ unleft' = TRUE
            /\ CASE r.media = "both" ->
                      /\ issued' = <<"startAudio", "startVideo">>
                      /\ runs' = [runs EXCEPT ![i].pc = "allSettled"]
                      /\ UNCHANGED <<isLoading, isInSession, isError, error>>
                 [] r.media = "audio" ->
                      /\ issued' = <<"startAudio">>
                      /\ runs' = [runs EXCEPT ![i].pc = "start"]
                      /\ UNCHANGED <<isLoading, isInSession, isError, error>>
                 [] r.media = "video" ->
                      /\ issued' = <<"startVideo">>
                      /\ runs' = [runs EXCEPT ![i].pc = "start"]
                      /\ UNCHANGED <<isLoading, isInSession, isError, error>>
                 [] OTHER ->
                      /\ issued' = <<>>
                      /\ runs' = RemoveAt(runs, i)
                      /\ RunSucceeds(r)
    /\ connSeq' = 0
    /\ UNCHANGED <<sMounted, sThrown, sArgs, effectActive, subscribed, host, leaves>>
    /\ UNCHANGED <<attachVars, shareVars, userVars, remoteVars>>

ToleratedNever(r) == FALSE

\* hooks.tsx:571-575: a rejection of startAudio or startVideo inside
\* Promise.allSettled does not reach the catch block
Tolerated(r) == r.pc = "allSettled"

\* The awaited media start settles: Promise.allSettled never rejects, a
\* single startAudio / startVideo may.  ok = FALSE: a awaited start rejected
\* ("rejected" marks the rejection that nothing logs).
MediaSettle(i, ok) ==
    /\ i \in 1..Len(runs)
    /\ runs[i].pc \in {"allSettled", "start"}
    /\ runs' = RemoveAt(runs, i)
    /\ IF ok \/ Tolerated(runs[i])
       THEN RunSucceeds(runs[i]) /\ issued' = (IF ok THEN <<>> ELSE <<"rejected">>)
       ELSE RunFails(runs[i]) /\ issued' = <<"error">>
    /\ connSeq' = 0
    /\ UNCHANGED <<sMounted, sThrown, sArgs, effectActive, subscribed, sessIn, host, leaves,
                   unleft>>
    /\ UNCHANGED <<attachVars, shareVars, userVars, remoteVars>>

LeaveUncaught == issued' = <<"throw">>

\* hooks.tsx:600,605: .catch((e) => console.error("Error in leaving session: ", e))
LeaveCaught == issued' = <<"error(leave)">>

\* client.leave() settles; a rejection is logged by its .catch().
LeaveSettle(ok) ==
    /\ leaves > 0
    /\ leaves' = leaves - 1
    /\ sessIn' = (IF ok THEN FALSE ELSE sessIn)
    /\ IF ok THEN issued' = <<>> ELSE LeaveCaught
    /\ UNCHANGED unleft
    /\ connSeq' = 0
    /\ UNCHANGED <<sMounted, sThrown, sArgs, isLoading, isInSession, isError, error,
                   effectActive, subscribed, runs, host>>
    /\ UNCHANGED <<attachVars, shareVars, userVars, remoteVars>>

\* The backend makes the local user host, or takes the role away.
SetHost(b) ==
    /\ host # b
    /\ host' = b
    /\ issued' = <<>>
    /\ UNCHANGED unleft
    /\ connSeq' = 0
    /\ UNCHANGED <<sMounted, sThrown, sArgs, isLoading, isInSession, isError, error,
                   effectActive, subscribed, runs, sessIn, leaves>>
    /\ UNCHANGED <<attachVars, shareVars, userVars, remoteVars>>

InitSession ==
    /\ sMounted = FALSE
    /\ sThrown = FALSE
    /\ sArgs = NoArgs
    /\ isLoading = FALSE
    /\ isInSession = FALSE
    /\ isError = FALSE
    /\ error = 0
    /\ effectActive = FALSE
    /\ subscribed = 0
    /\ runs = <<>>
    /\ sessIn = FALSE
    /\ host = FALSE
    /\ leaves = 0
    /\ issued = <<>>
    /\ unleft = FALSE
    /\ connSeq = 0

NextSession ==
    \/ \E a \in ArgSet : Mount(a)
    \/ \E a \in ArgSet, same \in BOOLEAN : Rerender(a, same)
    \/ Unmount
    \/ \E st \in {"Closed", "Connected", "Reconnecting"} : ConnectionChange(st)
    \/ \E i \in 1..MaxAwaits, ok \in BOOLEAN : InitSettle(i, ok)
    \/ \E i \in 1..MaxAwaits, ok \in BOOLEAN : JoinSettle(i, ok)
    \/ \E i \in 1..MaxAwaits, ok \in BOOLEAN : MediaSettle(i, ok)
    \/ \E ok \in BOOLEAN : LeaveSettle(ok)
    \/ \E b \in BOOLEAN : SetHost(b)

\* ===================================================== local screen share
Obs(b) == IF b THEN "observer(true)" ELSE "observer(false)"

\* The component renders and its effects run, after a state update that sets
\* enabled to en (ext: the render has a cause other than that update).  A
\* render reads isInMeeting; when the value differs from the one of the last
\* render the passive-stop effect (LocalScreenShareComponent.tsx:184-198) is
\* cleaned up and run again.  The observer effect (259-261) reports every
\* value enabled takes.
\* An observer effect without its dependency: it reports after every update.
ObserverCallsAlways(from, to) == IF observerSet THEN <<Obs(to)>> ELSE <<>>

\* LocalScreenShareComponent.tsx:259-261: the effect on [enabled] calls the
\* registered observer when enabled went from `from` to `to`.
ObserverCalls(from, to) == IF observerSet /\ from # to THEN <<Obs(to)>> ELSE <<>>

\* LocalScreenShareComponent.tsx:49-53: the first version registers the
\* handler before it looks at inMeeting; the current one (184-192) after
SubscribesOutsideMeeting == shVersion = "first"

\* the handler the mounted component registered last is still registered
HandlerLive == shMounted /\ (inMeeting \/ SubscribesOutsideMeeting)

\* LocalScreenShareComponent.tsx:201-205 and 251-261: the roster effect and
\* the observer exist in the current version only
HasRosterSync == shVersion = "current"

Rendered(en, ext) ==
    LET render == ext \/ en # enabled
        changed == render /\ shSession # inMeeting
        unsub == changed /\ inMeeting
        sub == changed /\ shSession
        subOut == changed /\ ~shSession /\ SubscribesOutsideMeeting
        fin == IF unsub THEN FALSE ELSE en
    IN  [enabled |-> fin,
         inMeeting |-> IF render THEN shSession ELSE inMeeting,
         isVideoElement |-> IF sub THEN capability ELSE isVideoElement,
         passiveSub |-> (passiveSub - (IF unsub THEN 1 ELSE 0))
                          + (IF sub \/ subOut THEN 1 ELSE 0),
         log |-> (IF unsub THEN <<"off">> ELSE <<>>)
                 \o (IF sub THEN <<"on", "isStartShareScreenWithVideoElement">> ELSE <<>>)
                 \o (IF subOut THEN <<"on">> ELSE <<>>)
                 \o ObserverCalls(enabled, en)
                 \o ObserverCalls(en, fin)]

Apply(r, pre) ==
    /\ enabled' = r.enabled
    /\ inMeeting' = r.inMeeting
    /\ isVideoElement' = r.isVideoElement
    /\ passiveSub' = r.passiveSub
    /\ passiveSub' <= MaxHandlers
    /\ shIssued' = pre \o r.log

\* The component mounts: the first render and its effects.
ShMount ==
    /\ ~shMounted
    /\ shMounted' = TRUE
    /\ inMeeting' = shSession
    /\ IF shSession
       THEN /\ passiveSub' = passiveSub + 1
            /\ isVideoElement' = capability
            /\ shIssued' = <<"on", "isStartShareScreenWithVideoElement">>
       ELSE IF SubscribesOutsideMeeting
       THEN /\ passiveSub' = passiveSub + 1
            /\ shIssued' = <<"on">>
            /\ UNCHANGED isVideoElement
       ELSE /\ shIssued' = <<>>
            /\ UNCHANGED <<passiveSub, isVideoElement>>
    /\ passiveSub' <= MaxHandlers
    /\ enabled' = (HasRosterSync /\ sharerOn)
    /\ UNCHANGED <<observerSet, starts, shSession, shareLocked, capability, bSharing,
                   sharerOn>>
    /\ passiveSince' = FALSE
    /\ UNCHANGED shVersion
    /\ UNCHANGED <<attachVars, sessionVars, userVars, remoteVars>>

\* The component unmounts: the cleanup of the passive-stop effect; the state
\* is discarded and updates by pending promises are dropped from then on.
ShUnmount ==
    /\ shMounted
    /\ shMounted' = FALSE
    /\ enabled' = FALSE /\ isVideoElement' = FALSE /\ inMeeting' = FALSE
    /\ observerSet' = FALSE
    /\ passiveSub' = (IF inMeeting THEN passiveSub - 1 ELSE passiveSub)
    /\ shIssued' = (IF inMeeting THEN <<"off">> ELSE <<>>)
    /\ starts' = [i \in 1..Len(starts) |-> [starts[i] EXCEPT !.live = FALSE]]
    /\ UNCHANGED <<shSession, shareLocked, capability, bSharing, sharerOn>>
    /\ passiveSince' = FALSE
    /\ UNCHANGED shVersion
    /\ UNCHANGED <<attachVars, sessionVars, userVars, remoteVars>>

\* The component renders again for a cause outside of it (the roster changed).
ShRender ==
    /\ shMounted
    /\ Apply(Rendered(enabled, TRUE), <<>>)
    /\ UNCHANGED <<shMounted, observerSet, starts, shSession, shareLocked, capability, bSharing,
                   sharerOn>>
    /\ UNCHANGED <<passiveSince, shVersion>>
    /\ UNCHANGED <<attachVars, sessionVars, userVars, remoteVars>>

\* LocalScreenShareComponent.tsx:201-205: the roster reports sharerOn = b for
\* the current user, the component renders and the effect sets enabled to b.
SharerOnChange(b) ==
    /\ sharerOn # b
    /\ sharerOn' = b
    /\ IF shMounted /\ HasRosterSync
       THEN Apply(Rendered(b, TRUE), <<>>)
       ELSE UNCHANGED <<enabled, inMeeting, isVideoElement, passiveSub>> /\ shIssued' = <<>>
    /\ UNCHANGED <<shMounted, observerSet, starts, shSession, shareLocked, capability, bSharing>>
    /\ UNCHANGED <<passiveSince, shVersion>>
    /\ UNCHANGED <<attachVars, sessionVars, userVars, remoteVars>>

LockCheckSkipped == FALSE

\* LocalScreenShareComponent.tsx:213: if (mediaStream.isShareLocked())
LockCheck == shareLocked

\* A request that always hands over the canvas.
ShareSurfaceCanvas == "canvas"

\* LocalScreenShareComponent.tsx:212-238: the element handed to startShareScreen
ShareSurface == IF capability THEN "video" ELSE "canvas"

\* LocalScreenShareComponent.tsx:207-249, requestShare.
requestShare ==
    /\ shMounted
    /\ IF ~inMeeting
       THEN /\ shIssued' = <<"requestShare">>
            /\ UNCHANGED starts
       ELSE IF LockCheck
       THEN /\ shIssued' = <<"requestShare", "isStartShareScreenWithVideoElement",
                             "isShareLocked", "error">>
            /\ UNCHANGED starts
       ELSE /\ Len(starts) < MaxStarts
            /\ shIssued' = <<"requestShare", "isStartShareScreenWithVideoElement",
                             "isShareLocked", "startShareScreen">>
            /\ starts' = Append(starts, [surface |-> ShareSurface, live |-> TRUE])
    /\ UNCHANGED <<shMounted, enabled, isVideoElement, inMeeting, observerSet, passiveSub,
                   shSession, shareLocked, capability, bSharing, sharerOn>>
    /\ passiveSince' = (passiveSince /\ starts' = starts)
    /\ UNCHANGED shVersion
    /\ UNCHANGED <<attachVars, sessionVars, userVars, remoteVars>>

\* startShareScreen settles: .then(() => setEnabled(true)), or
\* .catch(() => { setEnabled(false); console.error(...) })
StartSettle(i, ok) ==
    /\ i \in 1..Len(starts)
    /\ starts' = RemoveAt(starts, i)
    /\ IF starts[i].live
       THEN Apply(Rendered(ok, FALSE), IF ok THEN <<"resolved">> ELSE <<"error">>)
       ELSE /\ shIssued' = (IF ok THEN <<"resolved">> ELSE <<"error">>)
            /\ UNCHANGED <<enabled, inMeeting, isVideoElement, passiveSub>>
    /\ bSharing' = (ok \/ bSharing)
    /\ UNCHANGED <<shMounted, observerSet, shSession, shareLocked, capability, sharerOn>>
    /\ UNCHANGED <<passiveSince, shVersion>>
    /\ UNCHANGED <<attachVars, sessionVars, userVars, remoteVars>>

\* The function requestShare returned is called, or stopScreenshare of the
\* hook: stopShareScreen(), whose promise nothing of the component awaits;
\* the backend stops the share (ok) or refuses.
StopShare(ok) ==
    /\ shMounted
    /\ shIssued' = <<"stopShareScreen">>
    /\ bSharing' = (bSharing /\ ~ok)
    /\ UNCHANGED <<shMounted, enabled, isVideoElement, inMeeting, observerSet, passiveSub,
                   starts, shSession, shareLocked, capability, sharerOn>>
    /\ UNCHANGED <<passiveSince, shVersion>>
    /\ UNCHANGED <<attachVars, sessionVars, userVars, remoteVars>>

\* A handler that stops an active share only where none was requested again.
PassiveStopIfIdle == enabled /\ starts # <<>>

\* LocalScreenShareComponent.tsx:189: setEnabled(false)
PassiveStopValue == FALSE

\* LocalScreenShareComponent.tsx:188-190: the backend emits passively-stop-share
\* and the subscribed handler runs.
PassiveStop ==
    /\ passiveSub > 0
    /\ HandlerLive
    /\ Apply(Rendered(PassiveStopValue, FALSE), <<"passively-stop-share">>)
    /\ bSharing' = FALSE
    /\ UNCHANGED <<shMounted, observerSet, starts, shSession, shareLocked, capability,
                   sharerOn>>
    /\ passiveSince' = (passiveSince \/ \E i \in 1..Len(starts) : starts[i].live)
    /\ UNCHANGED shVersion
    /\ UNCHANGED <<attachVars, sessionVars, userVars, remoteVars>>

\* LocalScreenShareComponent.tsx:251-257, setOnStateChange.
setOnStateChange ==
    /\ shMounted
    /\ HasRosterSync
    /\ observerSet' = TRUE
    /\ shIssued' = <<"setOnStateChange", Obs(enabled)>>
    /\ UNCHANGED <<shMounted, enabled, isVideoElement, inMeeting, passiveSub, starts,
                   shSession, shareLocked, capability, bSharing, sharerOn>>
    /\ UNCHANGED <<passiveSince, shVersion>>
    /\ UNCHANGED <<attachVars, sessionVars, userVars, remoteVars>>

\* The backend: the session is joined or left, the host locks or unlocks
\* sharing.  (What isStartShareScreenWithVideoElement() answers is a property
\* of the browser: it is chosen once, before anything is mounted.)
ShBackend(s, l) ==
    /\ <<s, l>> # <<shSession, shareLocked>>
    /\ shSession' = s /\ shareLocked' = l
    /\ bSharing' = (bSharing /\ s)
    /\ UNCHANGED capability
    /\ shIssued' = <<>>
    /\ UNCHANGED <<shMounted, enabled, isVideoElement, inMeeting, observerSet, passiveSub,
                   starts, sharerOn>>
    /\ UNCHANGED <<passiveSince, shVersion>>
    /\ UNCHANGED <<attachVars, sessionVars, userVars, remoteVars>>

\* LocalScreenShareComponent.tsx:263-271: the display style of the surfaces
CanvasShown == ~isVideoElement /\ enabled

VideoShown == isVideoElement /\ enabled

InitShare ==
    /\ shMounted = FALSE
    /\ enabled = FALSE /\ isVideoElement = FALSE /\ inMeeting = FALSE
    /\ observerSet = FALSE
    /\ passiveSub = 0
    /\ starts = <<>>
    /\ shSession = FALSE /\ shareLocked = FALSE /\ capability \in BOOLEAN
    /\ sharerOn = FALSE
    /\ bSharing = FALSE
    /\ shIssued = <<>>
    /\ passiveSince = FALSE
    /\ shVersion \in {"first", "current"}

NextShare ==
    \/ ShMount
    \/ ShUnmount
    \/ ShRender
    \/ \E b \in BOOLEAN : SharerOnChange(b)
    \/ requestShare
    \/ \E i \in 1..MaxStarts, ok \in BOOLEAN : StartSettle(i, ok)
    \/ \E ok \in BOOLEAN : StopShare(ok)
    \/ PassiveStop
    \/ setOnStateChange
    \/ \E s, l \in BOOLEAN : ShBackend(s, l)

InitAttach ==
    /\ impl \in {"mutex", "deferred"}
    /\ kind \in {"video", "share"}
    /\ mounted = FALSE
    /\ isMountedRef = TRUE
    /\ videoMutexRef = FALSE
    /\ cleanupUid = 0
    /\ userId = 1
    /\ quality = "Video_360P"
    /\ bOn \in BOOLEAN
    /\ isInMeeting \in BOOLEAN
    /\ container = <<>>
    /\ inflight = EmptyBag
    /\ timers = <<>>
    /\ aIssued = <<>>
    /\ toggle = 0
    /\ life = "none"

NextAttach ==
    \/ Setup
    \/ Teardown
    \/ \E b \in BOOLEAN : SetOn(b)
    \/ \E q \in Qualities : SetQuality(q)
    \/ \E u \in Users, b \in BOOLEAN : SetUserId(u, b)
    \/ \E b \in BOOLEAN : SetInMeeting(b)
    \/ TimerFire
    \/ \E c \in Calls, ok \in BOOLEAN : AttachSettle(c, ok)
    \/ \E c \in Calls, ok \in BOOLEAN : DetachSettle(c, ok)

\* ======================================================== specifications
\* the attachment managers; the session hook stays unmounted
\* ============================================ useSessionUsers, useScreenShareUsers

\* client.getSessionInfo().userId
LocalUserId == 1

\* useState<Participant | null>(null)
NoParticipant == [userId |-> 0, bVideoOn |-> FALSE]

\* part_016:25-30, the effect on [users]: setMyself(localUser) when the
\* roster holds a participant with the local user id
MyselfAfter(prev, users) ==
    IF \E p \in users : p.userId = LocalUserId
    THEN CHOOSE p \in users : p.userId = LocalUserId
    ELSE prev

RosterEvents == {"user-added", "user-removed", "user-updated"}

\* useSessionUsers mounts: useState([]), the two effects subscribe.
RosterMount ==
    /\ ~ruMounted
    /\ ruMounted' = TRUE
    /\ sessionUsers' = {}
    /\ myself' = NoParticipant
    /\ uIssued' = <<"on(user-added)", "on(user-removed)", "on(user-updated)",
                    "on(connection-change)">>
    /\ UNCHANGED <<suMounted, screenShareUsers, allUser, uClosed>>
    /\ UNCHANGED <<attachVars, sessionVars, shareVars, remoteVars>>

\* useSessionUsers unmounts: the cleanups unsubscribe, the state is gone.
RosterUnmount ==
    /\ ruMounted
    /\ ruMounted' = FALSE
    /\ sessionUsers' = {}
    /\ myself' = NoParticipant
    /\ uIssued' = <<"off(user-added)", "off(user-removed)", "off(user-updated)",
                    "off(connection-change)">>
    /\ UNCHANGED <<suMounted, screenShareUsers, allUser, uClosed>>
    /\ UNCHANGED <<attachVars, sessionVars, shareVars, remoteVars>>

\* useScreenShareUsers mounts: useState([]), the effect subscribes.
ShareUsersMount ==
    /\ ~suMounted
    /\ suMounted' = TRUE
    /\ screenShareUsers' = <<>>
    /\ uIssued' = <<"on(peer-share-state-change)">>
    /\ UNCHANGED <<ruMounted, sessionUsers, allUser, uClosed, myself>>
    /\ UNCHANGED <<attachVars, sessionVars, shareVars, remoteVars>>

ShareUsersUnmount ==
    /\ suMounted
    /\ suMounted' = FALSE
    /\ screenShareUsers' = <<>>
    /\ uIssued' = <<"off(peer-share-state-change)">>
    /\ UNCHANGED <<ruMounted, sessionUsers, allUser, uClosed, myself>>
    /\ UNCHANGED <<attachVars, sessionVars, shareVars, remoteVars>>

\* The backend's registry changes: a user joins, leaves, or switches video.
RegistryChange(uid, v) ==
    /\ allUser' = {p \in allUser : p.userId # uid} \cup
                     (IF v = "absent" THEN {}
                      ELSE {[userId |-> uid, bVideoOn |-> (v = "on")]})
    /\ allUser' # allUser
    /\ uIssued' = <<>>
    /\ UNCHANGED <<ruMounted, suMounted, sessionUsers, screenShareUsers, uClosed, myself>>
    /\ UNCHANGED <<attachVars, sessionVars, shareVars, remoteVars>>

\* The roster handler patching the previous roster instead of replacing it.
RosterPatched(prev, all) == prev \cup all

\* useSessionUsers handler: setSessionUsers(client.getAllUser())
RosterReplaced(prev, all) == all

\* The backend emits user-added, user-removed or user-updated.
RosterEvent(ev) ==
    /\ ev \in RosterEvents
    /\ uClosed' = FALSE
    /\ IF ruMounted
       THEN /\ sessionUsers' = RosterReplaced(sessionUsers, allUser)
            /\ myself' = MyselfAfter(myself, sessionUsers')
            /\ uIssued' = <<"getAllUser">>
       ELSE /\ uIssued' = <<>>
            /\ UNCHANGED <<sessionUsers, myself>>
    /\ UNCHANGED <<ruMounted, suMounted, screenShareUsers, allUser>>
    /\ UNCHANGED <<attachVars, sessionVars, shareVars, remoteVars>>

\* The handler dropping the whole list when a share stops.
WithoutAnyone(p, uid) == <<>>

\* p.filter(id => id !== uid)
Without(p, uid) == SelectSeq(p, LAMBDA id : id # uid)

\* useScreenShareUsers handler on peer-share-state-change
ShareUsersAfter(p, action, uid) ==
    IF action = "Start" THEN Append(p, uid) ELSE Without(p, uid)

\* The backend emits peer-share-state-change.
PeerShareStateChange(action, uid) ==
    /\ uClosed' = FALSE
    /\ IF suMounted
       THEN /\ screenShareUsers' = ShareUsersAfter(screenShareUsers, action, uid)
            /\ Len(screenShareUsers') <= MaxListed
            /\ uIssued' = <<"peer-share-state-change", action, ToString(uid)>>
       ELSE /\ uIssued' = <<>>
            /\ UNCHANGED screenShareUsers
    /\ UNCHANGED <<ruMounted, suMounted, sessionUsers, allUser, myself>>
    /\ UNCHANGED <<attachVars, sessionVars, shareVars, remoteVars>>

\* The backend emits connection-change; useSessionUsers clears the roster on
\* Closed, useScreenShareUsers has no handler for it.
UsersConnectionChange(state) ==
    /\ uClosed' = (state = "Closed")
    /\ uIssued' = <<>>
    /\ sessionUsers' = IF ruMounted /\ state = "Closed" THEN {} ELSE sessionUsers
    /\ myself' = IF ruMounted THEN MyselfAfter(myself, sessionUsers') ELSE myself
    /\ UNCHANGED <<ruMounted, suMounted, screenShareUsers, allUser>>
    /\ UNCHANGED <<attachVars, sessionVars, shareVars, remoteVars>>

InitUsers ==
    /\ ruMounted = FALSE
    /\ suMounted = FALSE
    /\ sessionUsers = {}
    /\ screenShareUsers = <<>>
    /\ allUser = {}
    /\ uClosed = FALSE
    /\ uIssued = <<>>
    /\ myself = NoParticipant

NextUsers ==
    \/ RosterMount
    \/ RosterUnmount
    \/ ShareUsersMount
    \/ ShareUsersUnmount
    \/ \E uid \in Users, v \in {"absent", "off", "on"} : RegistryChange(uid, v)
    \/ \E ev \in RosterEvents : RosterEvent(ev)
    \/ \E action \in {"Start", "Stop"}, uid \in Users : PeerShareStateChange(action, uid)
    \/ \E state \in {"Closed", "Connected", "Reconnecting"} : UsersConnectionChange(state)

\* ============================================ RemoteScreenShareComponent

\* RemoteScreenShareComponent.tsx:29-43: the backend call of the handler
ViewCall(state) == IF state = "Active" THEN "startShareView" ELSE "stopShareView"

\* The component mounts: useState(false), the effect subscribes the handler.
RemoteMount ==
    /\ ~rMounted
    /\ rMounted' = TRUE
    /\ isRendering' = FALSE
    /\ lastState' = "none"
    /\ rIssued' = <<"on(active-share-change)">>
    /\ UNCHANGED views
    /\ UNCHANGED <<attachVars, sessionVars, shareVars, userVars>>

\* The component unmounts: the cleanup unsubscribes, the state is gone and
\* the handler runs still waiting update nothing.
RemoteUnmount ==
    /\ rMounted
    /\ rMounted' = FALSE
    /\ isRendering' = FALSE
    /\ lastState' = "none"
    /\ views' = [i \in 1..Len(views) |-> [views[i] EXCEPT !.live = FALSE]]
    /\ rIssued' = <<"off(active-share-change)">>
    /\ UNCHANGED <<attachVars, sessionVars, shareVars, userVars>>

\* The backend emits active-share-change for the share of user uid; the
\* handler runs up to its await.
ActiveShareChange(state, uid) ==
    /\ rMounted
    /\ Len(views) < MaxViews
    /\ views' = Append(views, [op |-> ViewCall(state), uid |-> uid, live |-> TRUE])
    /\ lastState' = state
    /\ rIssued' = <<ViewCall(state)>>
    /\ UNCHANGED <<rMounted, isRendering>>
    /\ UNCHANGED <<attachVars, sessionVars, shareVars, userVars>>

\* The handler sets isRendering once its own backend call has settled.
RenderingAfterOwnCall(v) == v.op = "startShareView"

\* The startShareView / stopShareView call of the handler run at position
\* i settles; a rejection is logged and the handler goes on.
ViewSettle(i, ok) ==
    /\ i \in 1..Len(views)
    /\ views' = RemoveAt(views, i)
    /\ isRendering' = IF views[i].live THEN RenderingAfterOwnCall(views[i]) ELSE isRendering
    /\ rIssued' = IF ok THEN <<>> ELSE <<"error">>
    /\ UNCHANGED <<rMounted, lastState>>
    /\ UNCHANGED <<attachVars, sessionVars, shareVars, userVars>>

InitRemote ==
    /\ rMounted = FALSE
    /\ isRendering = FALSE
    /\ views = <<>>
    /\ lastState = "none"
    /\ rIssued = <<>>

NextRemote ==
    \/ RemoteMount
    \/ RemoteUnmount
    \/ \E state \in {"Active", "Inactive"}, uid \in Users : ActiveShareChange(state, uid)
    \/ \E i \in 1..MaxViews, ok \in BOOLEAN : ViewSettle(i, ok)

Init ==
    /\ InitAttach /\ InitSession /\ InitShare /\ capability = FALSE /\ InitUsers /\ InitRemote
    /\ shVersion = "current"

Next == NextAttach

Spec == Init /\ [][Next]_vars

\* the video manager of part_014 alone
InitDeferredVideo == Init /\ impl = "deferred" /\ kind = "video"

SpecDeferredVideo == InitDeferredVideo /\ [][Next]_vars

\* the part_014 managers, video and screen share, in a session that stays
\* joined
InitJoined == Init /\ impl = "deferred" /\ isInMeeting

NextJoined ==
    \/ Setup
    \/ Teardown
    \/ \E b \in BOOLEAN : SetOn(b)
    \/ \E q \in Qualities : SetQuality(q)
    \/ \E u \in Users, b \in BOOLEAN : SetUserId(u, b)
    \/ TimerFire
    \/ \E c \in Calls, ok \in BOOLEAN : AttachSettle(c, ok)
    \/ \E c \in Calls, ok \in BOOLEAN : DetachSettle(c, ok)

SpecJoined == InitJoined /\ [][NextJoined]_vars

\* the session controller; the attachment manager stays unmounted
InitS ==
    /\ InitAttach /\ impl = "deferred" /\ kind = "video"
    /\ bOn = FALSE /\ isInMeeting = FALSE
    /\ InitSession
    /\ InitShare /\ capability = FALSE /\ shVersion = "current"
    /\ InitUsers
    /\ InitRemote

\* either version of the local share component, in a browser whose share
\* surface is the canvas or the video element
InitShareVersions ==
    /\ InitAttach /\ impl = "deferred" /\ kind = "video"
    /\ bOn = FALSE /\ isInMeeting = FALSE
    /\ InitSession
    /\ InitShare
    /\ InitUsers
    /\ InitRemote

\* the current version of the local share component
InitLocalShare == InitShareVersions /\ shVersion = "current"

SpecSession == InitS /\ [][NextSession]_vars

\* the backend settles every promise it returned; the caller is free to
\* never render the hook again
SessionSettles ==
    \/ \E i \in 1..MaxAwaits, ok \in BOOLEAN : InitSettle(i, ok) \/ JoinSettle(i, ok) \/ MediaSettle(i, ok)
    \/ \E ok \in BOOLEAN : LeaveSettle(ok)

SpecSessionFair == InitS /\ [][NextSession]_vars /\ WF_vars(SessionSettles)

\* the local screen share component; the other parts stay unmounted
SpecShare == InitLocalShare /\ [][NextShare]_vars

SpecShareVersions == InitShareVersions /\ [][NextShare]_vars

\* LocalScreenShareComponent.tsx:171,201-205: a roster event is delivered and
\* the roster shows what the backend holds for the local user's sharerOn.
RosterSync == SharerOnChange(bSharing)

\* the pending startShareScreen promises settle
StartSettles == \E i \in 1..MaxStarts, ok \in BOOLEAN : StartSettle(i, ok)

NextShareSync ==
    \/ ShMount
    \/ ShUnmount
    \/ ShRender
    \/ RosterSync
    \/ requestShare
    \/ StartSettles
    \/ \E ok \in BOOLEAN : StopShare(ok)
    \/ PassiveStop
    \/ setOnStateChange
    \/ \E s, l \in BOOLEAN : ShBackend(s, l)

\* the local screen share component with a roster that follows the backend:
\* roster events are delivered and promises settle
SpecShareFair ==
    InitLocalShare /\ [][NextShareSync]_vars /\ WF_vars(RosterSync) /\ WF_vars(StartSettles)

\* the roster and the screen-share user list against the backend's events
SpecUsers == InitS /\ [][NextUsers]_vars

\* the remote share surface against the backend's active-share-change events
SpecRemote == InitS /\ [][NextRemote]_vars

\* --------------------------------------------------------------- claims
\* the calls of operation o for user u that are in flight, and how many
\* calls for user u are in flight
InflightFor(u, o) == {c \in BagToSet(inflight) : c.uid = u /\ c.op = o}

InflightCount(u) ==
    BagCardinality([c \in {d \in BagToSet(inflight) : d.uid = u} |-> inflight[c]])

\* C1: in every reachable state and for every entity id the container holds
\* at most one element matching the entity's selector.
C1_AtMostOneElement == \A u \in Users : CountElem(container, u) <= 1

\* C1 restricted to the part_014 managers, which re-check the selector after
\* the await.
C1_AtMostOneElementDeferred == impl = "deferred" => C1_AtMostOneElement

\* C2: after the desired state of one entity went off, on, off faster than
\* the backend settles, and everything pending has settled, the container
\* holds no element for that entity.
C2_ToggleEndsDetached ==
    (toggle = 3 /\ Quiescent) => ~HasElem(container, userId)

\* C3: a teardown of a manager with an attached view that is followed by a
\* new reconciliation before the deferred check runs issues no backend
\* detach call, and the element is still in the container after the check.
C3_ChurnKeepsView ==
    /\ life \in {"down", "up", "kept"} => InflightFor(userId, "detach") = {}
    /\ life \in {"up", "kept"} => HasElem(container, userId)

C3_Witness == life = "kept" /\ HasElem(container, userId) /\ mounted

\* C4: a sustained teardown of a manager with an attached view, in a
\* connected session, issues a backend detach call when the deferred check
\* runs, and once that call has settled (resolved or rejected) the element
\* is gone; for the video and for the screen-share manager.
C4_TeardownDetaches ==
    /\ (life = "detaching" /\ isInMeeting) => InflightFor(userId, "detach") # {}
    /\ life = "detached" => ~HasElem(container, userId)

\* C8: an attach run (an effect run with the view wanted) for an entity whose
\* attach call with the same quality is still in flight, or whose element is
\* in the container, makes no backend call: two runs in succession with
\* nothing changed make one backend attach call.  Stated of part_014.
C8_SecondAttachRunIsNoop ==
    [][(/\ impl = "deferred" /\ ~mounted /\ mounted' /\ bOn
        /\ \/ HasElem(container, userId)
           \/ \E c \in InflightFor(userId, "attach") : c.q = CallQuality(quality))
       => inflight' = inflight]_vars

\* C9: for every entity at most one backend attach-or-detach call is in
\* flight at any time.  Stated of the managers that hold a mutex.
C9_OneInFlight ==
    impl = "mutex" =>
        \A u \in Users : InflightCount(u) <= 1

\* C5: for a joined session at rest, the connection-change events Connected,
\* Reconnecting, Connected leave (isInSession, isLoading) at (TRUE, FALSE),
\* then (FALSE, TRUE), then (TRUE, FALSE), with isError FALSE after each.
C5_ReconnectSequence ==
    /\ connSeq = 1 => (isInSession /\ ~isLoading /\ ~isError)
    /\ connSeq = 2 => (~isInSession /\ isLoading /\ ~isError)
    /\ connSeq = 3 => (isInSession /\ ~isLoading /\ ~isError)

\* C6: a render of the hook with an empty topic, token or userName throws,
\* and the step that throws makes no init, join or event subscription call:
\* the throw comes first and what follows is at most the cleanup of the
\* effect of an earlier render.
C6_MissingParamThrows ==
    [][(sArgs' # sArgs /\ "" \in {sArgs'.topic, sArgs'.token, sArgs'.userName})
       => /\ sThrown' /\ ~sMounted'
          /\ Head(issued') = "throw"
          /\ \A i \in 1..Len(issued') : issued'[i] \notin {"on", "init", "join"}
          /\ runs' = [i \in 1..Len(runs) |-> [runs[i] EXCEPT !.live = FALSE]]]_vars

C6_Witness ==
    /\ sThrown /\ ~sMounted /\ issued = <<"throw">>
    /\ sArgs.topic = "topic" /\ sArgs.token = "" /\ sArgs.userName = "userName"

C7_LockedRequestRejected ==
    [][(shareLocked /\ \E i \in 1..Len(shIssued') : shIssued'[i] = "isShareLocked")
       => /\ \A i \in 1..Len(shIssued') : shIssued'[i] # "startShareScreen"
          /\ Cardinality({i \in 1..Len(shIssued') : shIssued'[i] = "error"}) = 1
          /\ starts' = starts
          /\ enabled' = enabled
          /\ (~enabled /\ starts = <<>>) => (~CanvasShown' /\ ~VideoShown')]_vars

C7_Witness ==
    /\ shMounted /\ inMeeting /\ shareLocked /\ ~enabled /\ starts = <<>>
    /\ shIssued = <<"requestShare", "isStartShareScreenWithVideoElement", "isShareLocked",
                    "error">>

\* the method names in a list of calls
Range(q) == {q[i] : i \in 1..Len(q)}

\* C11: when init or join rejects for an initSession call of the mounted
\* hook, the step leaves isError TRUE, the caught value in error, isLoading
\* FALSE and isInSession as it was, and calls neither init nor join; init is
\* only ever called by a render with new arguments, and join only by the
\* initSession call whose init just resolved, so nothing is retried.
C11_FailureIsSurfacedNotRetried ==
    [][/\ \A i \in 1..Len(runs) :
            (/\ runs[i].live /\ runs[i].pc \in {"init", "join"}
             /\ runs' = RemoveAt(runs, i) /\ issued' = <<"error">>)
            => /\ isError' /\ error' = 1 /\ ~isLoading'
               /\ isInSession' = isInSession
       /\ "init" \in Range(issued') => (sArgs' # sArgs /\ sMounted')
       /\ "join" \in Range(issued') =>
            \E i \in 1..Len(runs) : runs[i].pc = "init" /\ runs' = [runs EXCEPT ![i].pc = "join"]
      ]_vars

C11_Witness ==
    /\ sMounted /\ isError /\ error = 1 /\ ~isLoading /\ ~isInSession
    /\ runs = <<>> /\ issued = <<"error">> /\ ~sessIn

\* how many entries of the list of calls q are in the set S
Count(q, S) == Cardinality({i \in 1..Len(q) : q[i] \in S})

\* C12: the step that deactivates the hook (the cleanup of its effect, on
\* unmount or before the effect runs again) unsubscribes the handler once;
\* with the backend in a meeting it makes exactly one leave call,
\* leave(endSessionOnLeave) for the host, leave() otherwise, with a warning
\* exactly when a non-host asked for endSessionOnLeave; with the backend
\* not in a meeting it makes no leave call.
C12_DeactivationLeavesOnce ==
    [][(effectActive /\ (~sMounted' \/ sArgs' # sArgs))
       => LET end == sArgs.opts.endSessionOnLeave
              leaveCalls == {"leave(true)", "leave(false)", "leave()"} IN
          /\ Count(issued', {"off"}) = 1
          /\ subscribed' = (subscribed - 1) + Count(issued', {"on"})
          /\ Count(issued', leaveCalls) = (IF sessIn THEN 1 ELSE 0)
          /\ (sessIn /\ host) => (IF end THEN "leave(true)" ELSE "leave(false)") \in Range(issued')
          /\ (sessIn /\ ~host) => "leave()" \in Range(issued')
          /\ "warn" \in Range(issued') <=> (sessIn /\ ~host /\ end)
          /\ leaves' = leaves + Count(issued', leaveCalls)]_vars

C12_Witness ==
    /\ ~sMounted /\ ~effectActive /\ subscribed = 0 /\ leaves = 1
    /\ issued = <<"off", "warn", "leave()">>

\* C13: the step in which a leave call of a deactivation rejects logs the
\* error and does nothing else: nothing is thrown, no state of the hook and
\* no subscription changes; and every deactivation step has, whatever
\* becomes of its leave call, unsubscribed the handler and left isInSession
\* and isError FALSE.
C13_LeaveRejectionContained ==
    [][/\ (leaves' = leaves - 1 /\ sessIn' /\ sessIn)
          => /\ issued' = <<"error(leave)">>
             /\ UNCHANGED <<sMounted, sThrown, sArgs, isLoading, isInSession, isError, error,
                            effectActive, subscribed, runs>>
       /\ (effectActive /\ sessIn /\ (~sMounted' \/ sArgs' # sArgs))
          => /\ leaves' = leaves + 1
             /\ ~isInSession' /\ ~isError'
             /\ Count(issued', {"off"}) = 1
             /\ subscribed' = (subscribed - 1) + Count(issued', {"on"})]_vars

C13_Witness ==
    /\ ~sMounted /\ ~effectActive /\ subscribed = 0 /\ leaves = 0 /\ sessIn
    /\ issued = <<"error(leave)">> /\ ~isInSession /\ ~isError /\ runs = <<>>

\* C14: a session that an activation of the hook joined is eventually left
\* once the hook is deactivated: while the hook stays deactivated a leave
\* call is eventually made (or the backend closes the session), also when
\* the join resolved after the deactivation.
C14_JoinedSessionIsLeft == (unleft /\ ~sMounted) ~> (~unleft \/ sMounted)

\* C15: a render of the mounted hook that leaves the arguments deep-equal
\* (whether or not the options object is a new one) makes no leave, no init
\* and no join call: no subscription, run or pending leave is added, and a
\* join in such a step is the continuation of an init that resolved.
C15_EqualArgumentsNoRejoin ==
    [][(sMounted /\ sMounted' /\ dequal(sArgs, sArgs'))
         => /\ Range(issued') \cap {"init", "off", "on", "leave(true)", "leave(false)", "leave()"} = {}
            /\ Len(runs') <= Len(runs)
            /\ leaves' <= leaves
            /\ UNCHANGED <<effectActive, subscribed>>
            /\ "join" \in Range(issued') =>
                  \E i \in 1..Len(runs) : /\ runs[i].pc = "init"
                                          /\ runs' = [runs EXCEPT ![i].pc = "join"]
      ]_vars

\* the hook, in the session, was rendered again with deep-equal arguments
C15_Witness ==
    /\ issued = <<"dequal">> /\ sMounted /\ effectActive /\ sessIn /\ isInSession
    /\ runs = <<>> /\ leaves = 0 /\ subscribed = 1

\* C16: right after the backend reported Closed, the roster of a mounted
\* useSessionUsers is empty and the list of a mounted useScreenShareUsers is
\* empty.
C16_ClosedClearsLists == uClosed => (sessionUsers = {} /\ screenShareUsers = <<>>)

\* C17: the roster is empty until the first roster event (it starts empty
\* and only a roster event makes it non-empty), and the step that processes
\* a user-added, user-removed or user-updated event leaves the roster equal
\* to what getAllUser() returns at that moment, whatever it held before.
C17_RosterIsSnapshot ==
    [][/\ uIssued' = <<"getAllUser">> => (ruMounted /\ sessionUsers' = allUser)
       /\ sessionUsers' # sessionUsers => (uIssued' = <<"getAllUser">> \/ sessionUsers' = {})
       /\ ~ruMounted' => sessionUsers' = {}
      ]_vars

\* a roster event was processed and the roster holds the one remaining
\* participant of the registry
C17_Witness ==
    /\ ruMounted /\ uIssued = <<"getAllUser">>
    /\ allUser = {[userId |-> 2, bVideoOn |-> TRUE]}
    /\ sessionUsers = allUser

\* C18: the step in which the subscribed component handles a
\* passively-stop-share event ends with the share state idle (enabled is
\* false) and both the canvas and the video surface hidden, whether the
\* component was idle, had a start request in flight or was sharing.
C18_PassiveStopHides ==
    [][(shIssued' # <<>> /\ shIssued'[1] = "passively-stop-share")
         => (~enabled' /\ ~CanvasShown' /\ ~VideoShown')]_vars

\* a passive stop was handled while a start request was in flight
C18_Witness ==
    /\ shIssued # <<>> /\ shIssued[1] = "passively-stop-share"
    /\ shMounted /\ ~enabled /\ starts # <<>> /\ starts[1].live

\* the observer's invocations of a step, in order
ObserverLog(log) == SelectSeq(log, LAMBDA e : e \in {Obs(TRUE), Obs(FALSE)})

\* the invocations obs report the transitions of a step that took the share
\* state from `from` to `to`: one per transition, each with the new value
ReportsTransitions(from, obs, to) ==
    /\ obs = <<>> => to = from
    /\ obs # <<>> => /\ obs[1] = Obs(~from)
                     /\ obs[Len(obs)] = Obs(to)
                     /\ \A k \in 1..(Len(obs) - 1) : obs[k + 1] # obs[k]

\* C19: while the component stays mounted, a registered observer is invoked
\* exactly once for each transition of enabled, with the new value, and is
\* not invoked in a step without a transition.
C19_ObserverOncePerTransition ==
    [][(shMounted /\ shMounted' /\ observerSet')
         => ReportsTransitions(enabled, ObserverLog(shIssued'), enabled')]_vars

\* C19 as amended: setOnStateChange invokes the observer once with the
\* current value; every other step invokes a registered observer exactly
\* once for each transition of enabled, with the new value, and not at all
\* without a transition.
C19_ObserverOnRegistrationAndTransition ==
    [][(shMounted /\ shMounted')
         => IF shIssued' # <<>> /\ shIssued'[1] = "setOnStateChange"
            THEN /\ ObserverLog(shIssued') = <<Obs(enabled)>>
                 /\ enabled' = enabled /\ observerSet'
            ELSE /\ observerSet' = observerSet
                 /\ observerSet => ReportsTransitions(enabled, ObserverLog(shIssued'), enabled')
                 /\ ~observerSet => ObserverLog(shIssued') = <<>>
      ]_vars

\* a registered observer was told of the end of a share that a passive stop
\* ended
C19_Witness ==
    /\ shMounted /\ observerSet /\ ~enabled
    /\ shIssued = <<"passively-stop-share", "observer(false)">>

\* C20: a requestShare made while the client is not in a session logs the
\* rejection, calls nothing on the backend (no capability query, no
\* isShareLocked, no startShareScreen) and leaves the share state as it was.
C20_RequestOutsideSessionRejected ==
    [][(shIssued' # <<>> /\ shIssued'[1] = "requestShare" /\ ~shSession)
         => /\ "error" \in Range(shIssued')
            /\ Range(shIssued') \cap {"isStartShareScreenWithVideoElement", "isShareLocked",
                                      "startShareScreen"} = {}
            /\ starts' = starts
            /\ enabled' = enabled]_vars

\* the start call i settles in this step: it leaves the pending calls
Settles(i) == i \in 1..Len(starts) /\ starts' = RemoveAt(starts, i) /\ Len(starts') < Len(starts)

\* C21: an accepted requestShare calls startShareScreen exactly once, with
\* the video surface when the capability query is true and the canvas
\* otherwise; when the call of a mounted component resolves with the client
\* in the session, enabled is true with that surface shown and the other
\* hidden; when it rejects, enabled is false, both are hidden and the
\* failure is logged.
C21_StartOnceThenActiveOrIdle ==
    [][/\ "startShareScreen" \in Range(shIssued')
            => /\ Count(shIssued', {"startShareScreen"}) = 1
               /\ starts' = Append(starts, [surface |-> IF capability THEN "video" ELSE "canvas",
                                            live |-> TRUE])
       /\ \A i \in 1..Len(starts) : (Settles(i) /\ starts[i].live /\ shSession) =>
             IF "error" \in Range(shIssued')
             THEN ~enabled' /\ ~CanvasShown' /\ ~VideoShown'
             ELSE /\ enabled'
                  /\ VideoShown' = (starts[i].surface = "video")
                  /\ CanvasShown' = (starts[i].surface = "canvas")
      ]_vars

\* a start with the video surface resolved and the video element is shown
C21_Witness ==
    /\ shMounted /\ shSession /\ capability /\ shIssued # <<>> /\ shIssued[1] = "resolved"
    /\ enabled /\ VideoShown /\ ~CanvasShown /\ starts = <<>>

\* C22: after an explicit stop of an active local share was accepted by the
\* backend, the mounted component eventually is idle (enabled false, both
\* surfaces hidden), unless the backend shares again.
C22_StopReturnsToIdle ==
    (shMounted /\ enabled /\ ~bSharing /\ shIssued = <<"stopShareScreen">>)
        ~> ((~enabled /\ ~CanvasShown /\ ~VideoShown) \/ ~shMounted \/ bSharing)

\* C23: after the quality prop of a video player changed while the video was
\* on and one view was attached, once every backend call and deferred check
\* has settled the container holds exactly one element for the participant,
\* and that element came from an attachVideo call made with the new quality.
C23_QualityChangeReattaches ==
    (life = "requality" /\ Quiescent)
        => /\ CountElem(container, userId) = 1
           /\ \A i \in 1..Len(container) :
                 container[i].uid = userId => container[i].q = quality

\* the backend call c settles in this step: it leaves the in-flight calls
CallSettles(c) == BagIn(c, inflight) /\ inflight' = inflight (-) SetToBag({c})

\* C24: when a backend detach call made by a part_014 manager (video or
\* screen share) settles, by resolving or by rejecting, no element matching
\* the entity's selector is left in the container.
C24_DetachRejectionStillRemoves ==
    [][\A c \in Calls : (impl = "deferred" /\ c.op = "detach" /\ CallSettles(c))
            => ~HasElem(container', c.uid)]_vars

\* the attach calls in flight for entity u
AttachesFor(fl, u) ==
    BagCardinality([c \in {d \in BagToSet(fl) : d.uid = u /\ d.op = "attach"} |-> fl[c]])

\* C25: when a backend attach call of a part_014 video player rejects, the
\* error is logged, the container is left as it was and holds no element
\* for the entity, and the step issues no attach call; and while the player
\* stays mounted an attach call is issued only by a step that changes the
\* desired state, the id or the quality.
C25_AttachRejectionContained ==
    [][/\ \A c \in Calls : (c.op = "attach" /\ CallSettles(c) /\ aIssued' = <<"error">>)
            => /\ container' = container
               /\ ~HasElem(container', c.uid)
       /\ \A u \in Users : (mounted /\ mounted' /\ AttachesFor(inflight', u) > AttachesFor(inflight, u))
            => (bOn' # bOn \/ userId' # userId \/ quality' # quality)
      ]_vars

\* C29: when a backend attach call of a part_014 manager resolves while an
\* element for the entity is in the container, the returned element is
\* removed and the container is left as it was; when no element for the
\* entity is there, the returned element is appended under the entity's id.
C29_ResolvedDuplicateDiscarded ==
    [][\A c \in Calls :
          (impl = "deferred" /\ c.op = "attach" /\ CallSettles(c) /\ aIssued' # <<"error">>)
             => IF HasElem(container, c.uid)
                THEN container' = container /\ aIssued' = <<"remove">>
                ELSE /\ Len(container') = Len(container) + 1
                     /\ SubSeq(container', 1, Len(container)) = container
                     /\ container'[Len(container')].uid = c.uid
                     /\ aIssued' = <<>>
      ]_vars

\* a second element for an entity whose view is attached was discarded
C29_Witness ==
    /\ impl = "deferred" /\ aIssued = <<"remove">>
    /\ CountElem(container, userId) = 1

\* C30: when the deferred check of a part_014 manager (video or screen
\* share) runs with the component unmounted and the session closed, it
\* makes no backend call and removes every element of the entity from the
\* container.
C30_ClosedSessionStripsDirectly ==
    [][(/\ impl = "deferred" /\ timers # <<>> /\ timers' = Tail(timers)
        /\ ~isMountedRef /\ ~isInMeeting)
         => /\ inflight' = inflight
            /\ container' = RemoveAll(container, Head(timers))]_vars

\* the ids of list p other than uid, in the order p holds them
RECURSIVE Others(_, _)
Others(p, uid) ==
    IF p = <<>> THEN <<>>
    ELSE IF Head(p) = uid THEN Others(Tail(p), uid)
    ELSE <<Head(p)>> \o Others(Tail(p), uid)

C27_MediaFailuresTolerated ==
    [][\A i \in 1..Len(runs) :
         /\ (runs[i].pc = "join" /\ runs[i].media = "both" /\ sessIn' /\ Len(runs') = Len(runs)
                /\ runs'[i].pc # "join")
              => /\ issued' = <<"startAudio", "startVideo">>
                 /\ runs'[i].pc = "allSettled"
         /\ (runs[i].pc = "allSettled" /\ runs[i].live /\ runs' = RemoveAt(runs, i))
              => /\ isInSession' /\ ~isLoading'
                 /\ isError' = isError /\ error' = error
                 /\ "error" \notin Range(issued')
      ]_vars

\* a start rejected and the activation ended in the session
C27_Witness ==
    /\ sMounted /\ issued = <<"rejected">> /\ runs = <<>>
    /\ isInSession /\ ~isLoading /\ ~isError

\* C28: once every startShareView / stopShareView call has settled, the
\* remote share surface of a mounted component is displayed exactly when the
\* last active-share-change event it handled had state Active.
C28_SurfaceFollowsLastEvent ==
    (rMounted /\ views = <<>> /\ lastState # "none")
        => (isRendering <=> lastState = "Active")

\* C31: after the user id prop of a mounted manager changed from A to B in a
\* joined session, with nothing pending and only A's view (if any) in the
\* container, once every backend call has resolved and every deferred check
\* has run the container holds no element of an entity other than B, and
\* holds exactly one element of B when B's desired state is on and none
\* otherwise.
C31_IdChangeMovesView ==
    (life = "reid" /\ Quiescent)
        => /\ \A i \in 1..Len(container) : container[i].uid = userId
           /\ CountElem(container, userId) = (IF bOn THEN 1 ELSE 0)

\* C36: when the deferred check of a torn-down part_014 manager ran while a
\* backend attach for its entity was still in flight, then once every call
\* has resolved the container holds no element.
C36_NoInsertAfterTeardown ==
    (life = "late" /\ Quiescent) => container = <<>>

\* C32: in every reachable state isError and isInSession are not both true.
C32_ErrorExcludesInSession == ~(isError /\ isInSession)

\* C33: right after the mounted controller handled a Connected or Closed
\* connection-change event, isError is false and the error value is empty
\* (0: null).
C33_ConnectionEventClearsError ==
    [][(\E state \in {"Connected", "Closed"} : ConnectionChange(state))
          => (~isError' /\ error' = 0)]_vars

\* the initSession call at position i ends in this step and a call started
\* after it is still running: it belongs to a superseded activation
SupersededEnds(i) ==
    /\ i \in 1..(Len(runs) - 1)
    /\ runs' = RemoveAt(runs, i)
    /\ \A j \in (i + 1)..Len(runs) : RemoveAt(runs, j) # runs'

\* C37: the step in which the initSession call of a superseded activation
\* ends, while the call of a later activation is still running, leaves
\* isLoading, isInSession, isError and the error value as they were.
C37_SupersededRunIsInert ==
    [][\A i \in 1..Len(runs) : SupersededEnds(i)
          => /\ isLoading' = isLoading /\ isInSession' = isInSession
             /\ isError' = isError /\ error' = error]_vars

\* the share state of the component: Active while enabled, Requesting while
\* a start call it made is pending, Idle otherwise
ShareState(en, st) ==
    IF en THEN "Active"
    ELSE IF \E i \in 1..Len(st) : st[i].live THEN "Requesting" ELSE "Idle"

\* C34: while the component stays mounted in a joined session (no passive-
\* stop effect cleanup) its share state changes only from
\* Idle to Requesting by an accepted requestShare, from Requesting to Active
\* by a start that resolved, from Requesting to Idle by a start that
\* rejected, and out of Active; it never goes from Idle to Active.
C34_ShareStateEdges ==
    [][(shMounted /\ shMounted' /\ shSession /\ shSession' /\ inMeeting /\ inMeeting') =>
         LET a == ShareState(enabled, starts)
             b == ShareState(enabled', starts')
         IN  \/ a = b
             \/ a = "Idle" /\ b = "Requesting" /\ "startShareScreen" \in Range(shIssued')
             \/ a = "Requesting" /\ b = "Active" /\ shIssued'[1] = "resolved"
             \/ a = "Requesting" /\ b = "Idle" /\ shIssued' # <<>>
                   /\ shIssued'[1] \in {"error", "passively-stop-share"}
             \/ a = "Active" /\ b \in {"Idle", "Requesting"}
      ]_vars

\* C35: while useMyself is mounted it returns null when the roster holds no
\* participant with the local user id, and that participant when the roster
\* holds one.
C35_MyselfFollowsRoster ==
    ruMounted =>
        IF \E p \in sessionUsers : p.userId = LocalUserId
        THEN myself \in sessionUsers /\ myself.userId = LocalUserId
        ELSE myself = NoParticipant

\* C39: in every reachable state the list of screen-sharing users holds no
\* user id twice.
C39_ShareUsersDistinct ==
    \A i, j \in 1..Len(screenShareUsers) :
        i # j => screenShareUsers[i] # screenShareUsers[j]

\* C38: after the teardown of the session controller or of the local share
\* component (either version, set up in a session or outside of one) no
\* handler it registered on the backend is still registered.
C38_SubscriptionsBalanced ==
    /\ ~sMounted => subscribed = 0
    /\ ~shMounted => passiveSub = 0

\* C40: when a passive stop was handled while a startShareScreen call was
\* pending and no requestShare was accepted since, the step in which a
\* pending start call resolves leaves the share state not Active and both
\* surfaces hidden.
C40_PassiveStopNotUndone ==
    [][(passiveSince /\ shMounted /\ shIssued' # <<>> /\ shIssued'[1] = "resolved")
          => (~enabled' /\ ~CanvasShown' /\ ~VideoShown')]_vars

====
